---- MODULE Spec2Model ----
(***************************************************************************)
(* Movie review backend (sachin181/Cloud-Project): the sentiment           *)
(* classifier with its fallback, the per-movie sentiment summary and the   *)
(* review handlers over the Firestore "reviews" collection.                *)
(***************************************************************************)
EXTENDS Integers, Sequences, FiniteSets, TLC

VARIABLES
    settings,     \* config.py: sentiment_provider and openai_api_key
    arg_text,     \* the text analyze_sentiment is called on
    remote,       \* what the remote service answered to that call
    result,       \* what the call returned
    reviews,      \* the Firestore collection "reviews": document id -> fields
    next_id,      \* the id the next added document gets
    clock,        \* what datetime.utcnow() returns next
    response,     \* the last request served and its HTTP response
    procs         \* the requests in flight, when handlers interleave

(***************************************************************************)
(* Python floats are IEEE-754 binary64.  A finite float is kept exactly,   *)
(* as a sign and a magnitude counted in units of 2^-112; the magnitude is  *)
(* a natural number written in NLimbs limbs of LimbBits bits, least        *)
(* significant limb first.  Every arithmetic result is rounded to MantBits *)
(* significant bits, ties to even, as the hardware does.                   *)
(***************************************************************************)
LimbBits == 14
NLimbs == 9
FracLimbs == 8
MantBits == 53
LimbBase == 2^LimbBits

\* The element of a one-element set.  Writing The({ e : x \in {v} }) for
\* "e where x is v" has v evaluated once, however often e reads x.
The(S) == CHOOSE x \in S : TRUE

\* the number whose limb i is F(i)
Limbs(F(_)) == <<F(1), F(2), F(3), F(4), F(5), F(6), F(7), F(8), F(9)>>
BigZero == Limbs(LAMBDA i : 0)
\* n * 2^112 for a small natural n: the integer n on the 2^-112 grid
BigFromInt(n) == Limbs(LAMBDA i : IF i = FracLimbs + 1 THEN n ELSE 0)

BigAdd(a, b) ==
    The({ LET carry[i \in 0..NLimbs] ==
                  IF i = 0 THEN 0 ELSE (x[i] + y[i] + carry[i - 1]) \div LimbBase
          IN  Limbs(LAMBDA i : (x[i] + y[i] + carry[i - 1]) % LimbBase)
          : x \in {a}, y \in {b} })

\* a - b for a >= b
BigSub(a, b) ==
    The({ LET borrow[i \in 0..NLimbs] ==
                  IF i = 0 THEN 0
                  ELSE IF x[i] - y[i] - borrow[i - 1] < 0 THEN 1 ELSE 0
          IN  Limbs(LAMBDA i : (x[i] - y[i] - borrow[i - 1] + LimbBase) % LimbBase)
          : x \in {a}, y \in {b} })

\* 1, 0 or -1 as a > b, a = b or a < b
BigCmp(a, b) ==
    The({ LET cmp[i \in 0..NLimbs] ==
                  IF i = 0 THEN 0
                  ELSE IF x[i] > y[i] THEN 1
                  ELSE IF x[i] < y[i] THEN -1
                  ELSE cmp[i - 1]
          IN  cmp[NLimbs]
          : x \in {a}, y \in {b} })

\* a * k for a small natural k
BigMulSmall(a, k) ==
    The({ LET carry[i \in 0..NLimbs] ==
                  IF i = 0 THEN 0 ELSE (x[i] * k + carry[i - 1]) \div LimbBase
          IN  Limbs(LAMBDA i : (x[i] * k + carry[i - 1]) % LimbBase)
          : x \in {a} })

\* a mod n for a small n: long division from the most significant limb
\* down; rem[i] is the remainder carried into limb i
BigModSmall(a, n) ==
    The({ LET rem[i \in 0..NLimbs] ==
                  IF i = NLimbs THEN 0 ELSE (rem[i + 1] * LimbBase + x[i + 1]) % n
          IN  rem[0]
          : x \in {a} })
\* a \div n for a small n
BigDivSmall(a, n) ==
    The({ LET rem[i \in 0..NLimbs] ==
                  IF i = NLimbs THEN 0 ELSE (rem[i + 1] * LimbBase + x[i + 1]) % n
          IN  Limbs(LAMBDA i : (rem[i] * LimbBase + x[i]) \div n)
          : x \in {a} })

BigPow2(k) ==
    The({ Limbs(LAMBDA i : IF i = (j \div LimbBits) + 1 THEN 2^(j % LimbBits) ELSE 0)
          : j \in {k} })
\* a mod 2^k
BigLowBits(a, k) ==
    The({ Limbs(LAMBDA i : IF i <= j \div LimbBits THEN x[i]
                           ELSE IF i = (j \div LimbBits) + 1
                                THEN x[i] % (2^(j % LimbBits))
                           ELSE 0)
          : x \in {a}, j \in {k} })
BigBit(a, k) == (a[(k \div LimbBits) + 1] \div (2^(k % LimbBits))) % 2
BigBitLen(a) ==
    The({ IF x = BigZero THEN 0
          ELSE The({ LimbBits * (h - 1)
                     + (CHOOSE k \in 1..LimbBits : 2^(k - 1) <= x[h] /\ x[h] < 2^k)
                     : h \in { i \in 1..NLimbs :
                                 x[i] # 0 /\ \A j \in (i + 1)..NLimbs : x[j] = 0 } })
          : x \in {a} })

\* how many low bits of q fall outside a MantBits-bit mantissa
Excess(q) ==
    The({ IF len > MantBits THEN len - MantBits ELSE 0 : len \in {BigBitLen(q)} })

\* q + r/n rounded at bit k: low is q mod 2^k, base is q - low
RoundAt(base, low, k, r, n) ==
    LET c    == IF k = 0
                THEN (IF 2 * r > n THEN 1 ELSE IF 2 * r = n THEN 0 ELSE -1)
                ELSE BigCmp(low, BigPow2(k - 1))
        more == k > 0 /\ r > 0
        up   == \E d \in {c} :
                   \/ d > 0
                   \/ d = 0 /\ more
                   \/ d = 0 /\ ~more /\ BigBit(base, k) = 1
    IN  IF up THEN BigAdd(base, BigPow2(k)) ELSE base

\* The magnitude nearest to q + r/n (0 <= r < n) that has at most MantBits
\* significant bits, ties to the even mantissa.
RoundMag(q, r, n) ==
    The({ The({ The({ RoundAt(base, low, k, r, n) : base \in {BigSub(x, low)} })
                : low \in {BigLowBits(x, k)} })
          : x \in {q}, k \in {Excess(q)} })

NaN == [nan |-> TRUE, neg |-> FALSE, mag |-> BigZero]
MkFloat(neg, mag) ==
    The({ [nan |-> FALSE, neg |-> (neg /\ m # BigZero), mag |-> m] : m \in {mag} })

\* The float a Python literal a/b denotes (0.2 is FromRatio(1, 5)), and the
\* result of the true division a / b of two ints.
FromRatio(a, b) ==
    The({ MkFloat(a < 0, RoundMag(BigDivSmall(m, b), BigModSmall(m, b), b))
          : m \in {BigFromInt(IF a < 0 THEN -a ELSE a)} })

FNeg(x) == The({ IF u.nan THEN NaN ELSE MkFloat(~u.neg, u.mag) : u \in {x} })

\* x + y
FAdd(x, y) ==
    The({ IF u.nan \/ v.nan THEN NaN
          ELSE IF u.neg = v.neg
               THEN MkFloat(u.neg, RoundMag(BigAdd(u.mag, v.mag), 0, 1))
          ELSE IF BigCmp(u.mag, v.mag) >= 0
               THEN MkFloat(u.neg, RoundMag(BigSub(u.mag, v.mag), 0, 1))
          ELSE MkFloat(v.neg, RoundMag(BigSub(v.mag, u.mag), 0, 1))
          : u \in {x}, v \in {y} })

\* x - y
FSub(x, y) == FAdd(x, FNeg(y))

\* x / n for a positive int n
FDivInt(x, n) ==
    The({ IF u.nan THEN NaN
          ELSE MkFloat(u.neg,
                       RoundMag(BigDivSmall(u.mag, n), BigModSmall(u.mag, n), n))
          : u \in {x} })

\* 1, 0 or -1 for two floats that are not NaN
FCmp(x, y) ==
    The({ IF u.neg /\ ~v.neg THEN -1
          ELSE IF ~u.neg /\ v.neg THEN 1
          ELSE IF u.neg THEN BigCmp(v.mag, u.mag)
          ELSE BigCmp(u.mag, v.mag)
          : u \in {x}, v \in {y} })
\* x < y and x > y: False when either is NaN
FLt(x, y) == \E u \in {x}, v \in {y} : ~u.nan /\ ~v.nan /\ FCmp(u, v) < 0
FGt(x, y) == \E u \in {x}, v \in {y} : ~u.nan /\ ~v.nan /\ FCmp(u, v) > 0

\* Python's min(a, b) and max(a, b): the first argument unless the second
\* compares strictly smaller (larger).
PyMin(a, b) == The({ IF FLt(v, u) THEN v ELSE u : u \in {a}, v \in {b} })
PyMax(a, b) == The({ IF FGt(v, u) THEN v ELSE u : u \in {a}, v \in {b} })

(***************************************************************************)
(* Text.  A str is a sequence of one-character strings.                    *)
(***************************************************************************)
UpperLetters ==
    <<"A", "B", "C", "D", "E", "F", "G", "H", "I", "J", "K", "L", "M",
      "N", "O", "P", "Q", "R", "S", "T", "U", "V", "W", "X", "Y", "Z">>
LowerLetters ==
    <<"a", "b", "c", "d", "e", "f", "g", "h", "i", "j", "k", "l", "m",
      "n", "o", "p", "q", "r", "s", "t", "u", "v", "w", "x", "y", "z">>
LowerChar(c) ==
    IF \E i \in DOMAIN UpperLetters : UpperLetters[i] = c
    THEN LowerLetters[CHOOSE i \in DOMAIN UpperLetters : UpperLetters[i] = c]
    ELSE c
\* text.lower()
Lower(text) ==
    The({ SubSeq([i \in 1..Len(s) |-> LowerChar(s[i])], 1, Len(s)) : s \in {text} })
\* w in t, for two strs: w occurs in t at some position i
In(w, t) ==
    \E x \in {w}, s \in {t} :
        \E i \in 1..(Len(s) - Len(x) + 1) :
            \A j \in 1..Len(x) : s[i + j - 1] = x[j]

\* str.lower() of the short configuration and label strings, kept as TLA+
\* strings
StrLower(s) ==
    CASE s = "OpenAI" -> "openai"
      [] s = "Neutral" -> "neutral"
      [] s = "NEGATIVE" -> "negative"
      [] s = "Mixed" -> "mixed"
      [] OTHER -> s

(***************************************************************************)
(* services/sentiment.py: the local keyword heuristic.                     *)
(***************************************************************************)
_POSITIVE_WORDS ==
    <<
       <<"g", "o", "o", "d">>,
       <<"g", "r", "e", "a", "t">>,
       <<"a", "m", "a", "z", "i", "n", "g">>,
       <<"a", "w", "e", "s", "o", "m", "e">>,
       <<"l", "o", "v", "e">>,
       <<"l", "o", "v", "e", "d">>,
       <<"e", "x", "c", "e", "l", "l", "e", "n", "t">>,
       <<"f", "a", "n", "t", "a", "s", "t", "i", "c">>,
       <<"e", "n", "j", "o", "y", "e", "d">>,
       <<"l", "i", "k", "e", "d">> >>

_NEGATIVE_WORDS ==
    <<
       <<"b", "a", "d">>,
       <<"b", "o", "r", "i", "n", "g">>,
       <<"t", "e", "r", "r", "i", "b", "l", "e">>,
       <<"a", "w", "f", "u", "l">>,
       <<"h", "a", "t", "e">>,
       <<"h", "a", "t", "e", "d">>,
       <<"d", "i", "s", "a", "p", "p", "o", "i", "n", "t", "i", "n", "g">>,
       <<"d", "i", "s", "a", "p", "p", "o", "i", "n", "t", "e", "d">>,
       <<"s", "l", "o", "w">>,
       <<"d", "i", "d", " ", "n", "o", "t", " ", "l", "i", "k", "e">>,
       <<"d", "i", "d", "n", "'", "t", " ", "l", "i", "k", "e">>,
       <<"w", "o", "r", "s", "t">> >>

SentimentResult(label, score) == [label |-> label, score |-> score]

\* a heuristic that weighs a positive word like a negative one
PositiveWeightQuarter == FromRatio(1, 4)
PositiveWeight == FromRatio(1, 5)          \* score += 0.2
NegativeWeight == FromRatio(1, 4)          \* score -= 0.25

\* for w in words: if w in t: score += delta
\* acc[i] is the score after the i-th word
ScanWords(words, t, delta, score) ==
    The({ LET acc[i \in 0..Len(words)] ==
                  IF i = 0 THEN score
                  ELSE IF In(words[i], s) THEN FAdd(acc[i - 1], d)
                  ELSE acc[i - 1]
          IN  acc[Len(words)]
          : s \in {t}, d \in {delta} })

Float0_0 == FromRatio(0, 1)
Float1_0 == FromRatio(1, 1)
Float0_1 == FromRatio(1, 10)

\* max(min(score, 1.0), -1.0)
Clamp(score) == PyMax(PyMin(score, Float1_0), FNeg(Float1_0))

\* a labelling with the thresholds of the movie summary
MockLabelFifth(score) ==
    The({ IF FGt(s, FromRatio(1, 5)) THEN "positive"
          ELSE IF FLt(s, FNeg(FromRatio(1, 5))) THEN "negative"
          ELSE "neutral"
          : s \in {score} })

\* the label of the heuristic's score
MockLabel(score) ==
    The({ IF FGt(s, Float0_1) THEN "positive"
          ELSE IF FLt(s, FNeg(Float0_1)) THEN "negative"
          ELSE "neutral"
          : s \in {score} })

\* a heuristic that does not clamp its score
_mock_analyze_unclamped(text) ==
    The({ LET plus  == ScanWords(_POSITIVE_WORDS, t, PositiveWeight, Float0_0)
              minus == ScanWords(_NEGATIVE_WORDS, t, FNeg(NegativeWeight), plus)
          IN  The({ SentimentResult(MockLabel(score), score)
                    : score \in {minus} })
          : t \in {Lower(text)} })

_mock_analyze(text) ==
    The({ LET plus  == ScanWords(_POSITIVE_WORDS, t, PositiveWeight, Float0_0)
              minus == ScanWords(_NEGATIVE_WORDS, t, FNeg(NegativeWeight), plus)
          IN  The({ SentimentResult(MockLabel(score), score)
                    : score \in {Clamp(minus)} })
          : t \in {Lower(text)} })

(***************************************************************************)
(* The texts of the model: every concatenation of at most MaxTokens of the *)
(* tokens below.                                                           *)
(***************************************************************************)
MaxTokens == 3

Tokens ==
    <<
       <<"l", "o", "v", "e">>,
       <<"d">>,
       <<"h", "a", "t", "e">>,
       <<"G", "o", "o", "d", " ", "g", "r", "e", "a", "t", " ", "a", "m", "a", "z", "i", "n", "g">>,
       <<" ", "b", "a", "d", " ", "s", "l", "o", "w">>,
       <<"A", "W", "E", "S", "O", "M", "E", " ", "e", "x", "c", "e", "l", "l", "e", "n", "t", " ", "l", "i", "k", "e", "d">>,
       <<"a", "w", "f", "u", "l", " ", "w", "o", "r", "s", "t", " ", "b", "o", "r", "i", "n", "g">> >>

\* the texts made of at most n tokens
TextsUpTo[n \in 0..MaxTokens] ==
    IF n = 0 THEN {<<>>}
    ELSE TextsUpTo[n - 1]
         \cup { t \o Tokens[i] : t \in TextsUpTo[n - 1], i \in DOMAIN Tokens }
Texts == TextsUpTo[MaxTokens]

\* _mock_analyze tabulated over Texts, so that a call is a lookup
MockMemo == [t \in Texts |-> _mock_analyze(t)]

(***************************************************************************)
(* services/sentiment.py: the OpenAI call.  What the remote service does   *)
(* is an input: the outcome of requests.post, the status, whether the      *)
(* body is JSON, its "choices" and the content string of the first choice. *)
(***************************************************************************)
\* a JSON value under "score": a number literal num/den, NaN, or a string
JsonNumber(num, den) == [t |-> "number", num |-> num, den |-> den]
JsonNaN == [t |-> "NaN"]
JsonString(s) == [t |-> "string", s |-> s]

Raised == [raised |-> TRUE]

\* float(v)
PyFloat(v) ==
    CASE v.t = "number" -> FromRatio(v.num, v.den)
      [] v.t = "NaN" -> NaN
      [] OTHER -> Raised                   \* float("high"): ValueError

\* a content string that json.loads rejects
Malformed == [malformed |-> TRUE]

HttpResponse(transport, status, json, choices) ==
    [transport |-> transport, status |-> status, json |-> json,
     choices |-> choices]

Labels == {"positive", "neutral", "negative"}

\* a parser that takes a missing score as 0.0 instead of raising
OpenAITryDefaultScore(http) ==
    IF http.transport # "ok" THEN Raised
    ELSE IF http.status >= 400 THEN Raised
    ELSE IF ~http.json THEN Raised
    ELSE IF http.choices = <<>> THEN Raised
    ELSE LET raw_text == http.choices[1]
         IN  IF raw_text = Malformed THEN Raised
             ELSE LET parsed == raw_text
                  IN  IF "label" \notin DOMAIN parsed THEN Raised
                      ELSE LET label == StrLower(parsed["label"])
                           IN  IF label \notin Labels THEN Raised
                               ELSE IF "score" \notin DOMAIN parsed
                                    THEN SentimentResult(label, Float0_0)
                               ELSE LET score == PyFloat(parsed["score"])
                                    IN  IF score = Raised THEN Raised
                                        ELSE SentimentResult(label,
                                                             Clamp(score))

\* The try block of _openai_analyze: the SentimentResult it returns, or
\* Raised when any statement in it raises.
OpenAITry(http) ==
    IF http.transport # "ok" THEN Raised               \* requests.post
    ELSE IF http.status >= 400 THEN Raised             \* raise_for_status
    ELSE IF ~http.json THEN Raised                     \* resp.json()
    ELSE IF http.choices = <<>> THEN Raised            \* No choices returned
    ELSE LET raw_text == http.choices[1]
         IN  IF raw_text = Malformed THEN Raised       \* json.loads
             ELSE LET parsed == raw_text
                  IN  IF "label" \notin DOMAIN parsed THEN Raised
                      ELSE LET label == StrLower(parsed["label"])
                           IN  IF label \notin Labels THEN Raised
                               ELSE IF "score" \notin DOMAIN parsed
                                    THEN Raised
                               ELSE LET score == PyFloat(parsed["score"])
                                    IN  IF score = Raised THEN Raised
                                        ELSE SentimentResult(label,
                                                             Clamp(score))

\* whether _openai_analyze sends the request at all
CallsRemote(api_key) == api_key # ""

_openai_analyze(text, api_key, http) ==
    IF ~CallsRemote(api_key) THEN MockMemo[text]
    ELSE LET r == OpenAITry(http)
         IN  IF r = Raised THEN MockMemo[text] ELSE r

UsesOpenAI(cfg) == StrLower(cfg.sentiment_provider) = "openai"

\* analyze_sentiment(text) under the settings cfg; http is the remote's
\* answer, read only when the request is sent
analyze_sentiment(text, cfg, http) ==
    IF UsesOpenAI(cfg)
    THEN _openai_analyze(text, cfg.openai_api_key, http)
    ELSE MockMemo[text]

(***************************************************************************)
(* The settings and the remote answers of the model.                       *)
(***************************************************************************)
SettingsSet ==
    [sentiment_provider : {"openai", "OpenAI", "mock"},
     openai_api_key : {"", "sk-test"}]

JsonLabels == {"positive", "Neutral", "negative", "Mixed"}
JsonScores ==
    {JsonNumber(-4, 5), JsonNumber(1, 10), JsonNumber(3, 2), JsonNaN,
     JsonString("high")}
JsonDict(keys, label, score) ==
    [k \in keys |-> IF k = "label" THEN label ELSE score]
Contents ==
    {Malformed}
    \cup { JsonDict({"label", "score"}, l, s) : l \in JsonLabels, s \in JsonScores }
    \cup { JsonDict({"label"}, l, JsonNaN) : l \in JsonLabels }
    \cup { JsonDict({"score"}, "", s) : s \in JsonScores }
    \cup { JsonDict({}, "", JsonNaN) }
RemoteResponses ==
    { HttpResponse("timeout", 0, FALSE, <<>>),
      HttpResponse("ok", 500, FALSE, <<>>),
      HttpResponse("ok", 200, FALSE, <<>>),
      HttpResponse("ok", 200, TRUE, <<>>) }
    \cup { HttpResponse("ok", 200, TRUE, <<c>>) : c \in Contents }

None == [none |-> TRUE]
\* None in a field that otherwise holds a str
NoneStr == "None"
NotSent == [sent |-> FALSE]

vars ==
    <<settings, arg_text, remote, result, reviews, next_id, clock, response,
      procs>>
store_vars == <<reviews, next_id, clock, response, procs>>
sentiment_vars == <<arg_text, remote, result>>

\* the empty collection
NoDocs == [id \in {} |-> None]

(***************************************************************************)
(* The classifier on its own: one call of analyze_sentiment per behaviour. *)
(***************************************************************************)
InitSentiment ==
    /\ settings \in SettingsSet
    /\ arg_text \in Texts
    /\ remote = None
    /\ result = None
    /\ reviews = NoDocs
    /\ next_id = 1
    /\ clock = 0
    /\ response = None
    /\ procs = None

AnalyzeLocal ==
    /\ result = None
    /\ ~(UsesOpenAI(settings) /\ CallsRemote(settings.openai_api_key))
    /\ remote' = NotSent
    /\ result' = analyze_sentiment(arg_text, settings, NotSent)
    /\ UNCHANGED <<settings, arg_text>>
    /\ UNCHANGED store_vars

AnalyzeRemote ==
    /\ result = None
    /\ UsesOpenAI(settings) /\ CallsRemote(settings.openai_api_key)
    /\ \E h \in RemoteResponses :
          /\ remote' = h
          /\ result' = analyze_sentiment(arg_text, settings, h)
    /\ UNCHANGED <<settings, arg_text>>
    /\ UNCHANGED store_vars

NextSentiment == AnalyzeLocal \/ AnalyzeRemote
SpecSentiment == InitSentiment /\ [][NextSentiment]_vars

(***************************************************************************)
(* routers/reviews.py over the collection "reviews".  The principal that   *)
(* get_user_id yields is an input of each request.                         *)
(***************************************************************************)
MaxWrites == 2                 \* how many times the handlers may write a document

Users == {"u1", "u2"}
Movies == {"m1"}
RatingInputs == {0, 1, 5, 6}
Bodies == {<<>>, Tokens[1]}                \* "" and "love"

\* models/review.py: rating: int = Field(ge=1, le=5)
ValidRating(rating) == rating >= 1 /\ rating <= 5

\* the request bodies: ReviewCreate, and ReviewUpdate with the fields the
\* client supplied (a field left out is None in the handler)
ReviewCreate == [movie_id : Movies, rating : RatingInputs, body : Bodies]
ReviewUpdate ==
    { [k \in {} |-> None] }
    \cup { [rating |-> r] : r \in RatingInputs }
    \cup { [body |-> b] : b \in Bodies }
    \cup { [rating |-> r, body |-> b] : r \in RatingInputs, b \in Bodies }
\* pydantic's validation of the request body, before the handler runs
ValidCreate(payload) == ValidRating(payload.rating)
ValidUpdate(payload) == "rating" \in DOMAIN payload => ValidRating(payload.rating)

\* the remote answers of the review handlers' classifier calls
StoreResponses ==
    { HttpResponse("timeout", 0, FALSE, <<>>),
      HttpResponse("ok", 200, TRUE,
                   <<JsonDict({"label", "score"}, "positive", JsonNumber(3, 2))>>),
      HttpResponse("ok", 200, TRUE,
                   <<JsonDict({"label", "score"}, "neutral", JsonNaN)>>) }
StoreSettings ==
    { [sentiment_provider |-> "mock", openai_api_key |-> ""],
      [sentiment_provider |-> "openai", openai_api_key |-> "sk-test"] }
\* what the remote may answer to a call under cfg: nothing when no request
\* is sent
AnswersUnder(cfg) ==
    IF UsesOpenAI(cfg) /\ CallsRemote(cfg.openai_api_key)
    THEN StoreResponses ELSE {NotSent}

\* update_review classifies only a request body that has a text; the
\* remote then answers in any of its ways
AnswersTo(payload) ==
    IF "body" \in DOMAIN payload THEN AnswersUnder(settings) ELSE {NotSent}

\* the ids of the documents that the query for (movie_id, user_id) yields
existing_query(docs, movie_id, user_id) ==
    { id \in DOMAIN docs :
        docs[id].movie_id = movie_id /\ docs[id].user_id = user_id }

\* the document create_review writes
review_data(user_id, payload, sentiment, now) ==
    [movie_id        |-> payload.movie_id,
     user_id         |-> user_id,
     rating          |-> payload.rating,
     body            |-> payload.body,
     sentiment_label |-> sentiment.label,
     sentiment_score |-> sentiment.score,
     created_at      |-> now,
     updated_at      |-> now]

\* collection.add(data): a new document under a fresh id
Add(docs, id, data) ==
    [i \in DOMAIN docs \cup {id} |-> IF i = id THEN data ELSE docs[i]]

\* an update that keeps the sentiment of the body it replaces
update_data_stale(payload, sentiment, now) ==
    [k \in {"updated_at"}
           \cup (IF "rating" \in DOMAIN payload THEN {"rating"} ELSE {})
           \cup (IF "body" \in DOMAIN payload THEN {"body"} ELSE {})
       |-> CASE k = "updated_at"      -> now
             [] k = "rating"          -> payload.rating
             [] k = "body"            -> payload.body]

\* the fields update_review writes; sentiment is read only when the body
\* was supplied
update_data(payload, sentiment, now) ==
    [k \in {"updated_at"}
           \cup (IF "rating" \in DOMAIN payload THEN {"rating"} ELSE {})
           \cup (IF "body" \in DOMAIN payload
                 THEN {"body", "sentiment_label", "sentiment_score"} ELSE {})
       |-> CASE k = "updated_at"      -> now
             [] k = "rating"          -> payload.rating
             [] k = "body"            -> payload.body
             [] k = "sentiment_label" -> sentiment.label
             [] k = "sentiment_score" -> sentiment.score]

\* doc_ref.update(data): the named fields are overwritten, the others kept
Update(docs, id, data) ==
    [docs EXCEPT ![id] =
        [k \in DOMAIN docs[id] |->
            IF k \in DOMAIN data THEN data[k] ELSE docs[id][k]]]

\* doc_ref.delete()
Delete(docs, id) == [i \in DOMAIN docs \ {id} |-> docs[i]]

\* a request as served: the handler, the caller, the review id or movie id
\* named, the request body (None on a request that failed), the HTTP
\* status, and the ReviewRead returned (None when there is none)
Served(op, user_id, target, payload, status, review) ==
    [op |-> op, user_id |-> user_id, target |-> target, payload |-> payload,
     status |-> status, review |-> review]

(***************************************************************************)
(* The handlers, one request at a time.                                    *)
(***************************************************************************)
\* POST /reviews.  collection.add returns the pair (update_time, doc_ref),
\* so doc_ref.id on its result raises AttributeError once the document is
\* written: the request ends in 500.
create_review(user_id, payload) ==
    /\ IF ~ValidCreate(payload)
       THEN /\ response' =
                  Served("create", user_id, payload.movie_id, None, 422, None)
            /\ UNCHANGED <<reviews, next_id, clock>>
       ELSE IF existing_query(reviews, payload.movie_id, user_id) # {}
       THEN /\ response' =
                  Served("create", user_id, payload.movie_id, None, 409, None)
            /\ UNCHANGED <<reviews, next_id, clock>>
       ELSE /\ clock < MaxWrites
            /\ \E http \in AnswersUnder(settings) :
                  reviews' =
                     Add(reviews, next_id,
                         review_data(user_id, payload,
                                     analyze_sentiment(payload.body, settings, http),
                                     clock))
            /\ next_id' = next_id + 1
            /\ clock' = clock + 1
            /\ response' =
                  Served("create", user_id, payload.movie_id, payload, 500, None)
    /\ UNCHANGED <<settings, procs>>
    /\ UNCHANGED sentiment_vars

\* GET /reviews/{review_id}
get_review(review_id) ==
    /\ response' =
          IF review_id \notin DOMAIN reviews
          THEN Served("get", None, review_id, None, 404, None)
          ELSE Served("get", None, review_id, None, 200, reviews[review_id])
    /\ UNCHANGED <<settings, reviews, next_id, clock, procs>>
    /\ UNCHANGED sentiment_vars

\* an update that runs the ownership check before the existence check
update_review_owner_first(user_id, review_id, payload) ==
    /\ IF ~ValidUpdate(payload)
       THEN /\ response' = Served("update", user_id, review_id, None, 422, None)
            /\ UNCHANGED <<reviews, clock>>
       ELSE IF review_id \notin DOMAIN reviews
               \/ reviews[review_id].user_id # user_id
       THEN /\ response' = Served("update", user_id, review_id, None, 403, None)
            /\ UNCHANGED <<reviews, clock>>
       ELSE /\ clock < MaxWrites
            /\ \E http \in AnswersTo(payload) :
                  reviews' =
                     Update(reviews, review_id,
                            update_data(payload,
                                        IF "body" \in DOMAIN payload
                                        THEN analyze_sentiment(payload.body,
                                                               settings, http)
                                        ELSE None,
                                        clock))
            /\ clock' = clock + 1
            /\ response' =
                  Served("update", user_id, review_id, payload, 200,
                         reviews'[review_id])
    /\ UNCHANGED <<settings, next_id, procs>>
    /\ UNCHANGED sentiment_vars

\* PATCH /reviews/{review_id}
update_review(user_id, review_id, payload) ==
    /\ IF ~ValidUpdate(payload)
       THEN /\ response' = Served("update", user_id, review_id, None, 422, None)
            /\ UNCHANGED <<reviews, clock>>
       ELSE IF review_id \notin DOMAIN reviews
       THEN /\ response' = Served("update", user_id, review_id, None, 404, None)
            /\ UNCHANGED <<reviews, clock>>
       ELSE IF reviews[review_id].user_id # user_id
       THEN /\ response' = Served("update", user_id, review_id, None, 403, None)
            /\ UNCHANGED <<reviews, clock>>
       ELSE /\ clock < MaxWrites
            /\ \E http \in AnswersTo(payload) :
                  reviews' =
                     Update(reviews, review_id,
                            update_data(payload,
                                        IF "body" \in DOMAIN payload
                                        THEN analyze_sentiment(payload.body,
                                                               settings, http)
                                        ELSE None,
                                        clock))
            /\ clock' = clock + 1
            /\ response' =
                  Served("update", user_id, review_id, payload, 200,
                         reviews'[review_id])
    /\ UNCHANGED <<settings, next_id, procs>>
    /\ UNCHANGED sentiment_vars

\* a delete that reports a review that does not exist
delete_review_strict(user_id, review_id) ==
    /\ IF review_id \notin DOMAIN reviews
       THEN /\ response' = Served("delete", user_id, review_id, None, 404, None)
            /\ UNCHANGED reviews
       ELSE IF reviews[review_id].user_id # user_id
       THEN /\ response' = Served("delete", user_id, review_id, None, 403, None)
            /\ UNCHANGED reviews
       ELSE /\ reviews' = Delete(reviews, review_id)
            /\ response' = Served("delete", user_id, review_id, None, 204, None)
    /\ UNCHANGED <<settings, next_id, clock, procs>>
    /\ UNCHANGED sentiment_vars

\* a delete without the ownership check
delete_review_unchecked(user_id, review_id) ==
    /\ IF review_id \notin DOMAIN reviews
       THEN /\ response' = Served("delete", user_id, review_id, None, 204, None)
            /\ UNCHANGED reviews
       ELSE /\ reviews' = Delete(reviews, review_id)
            /\ response' = Served("delete", user_id, review_id, None, 204, None)
    /\ UNCHANGED <<settings, next_id, clock, procs>>
    /\ UNCHANGED sentiment_vars

\* DELETE /reviews/{review_id}
delete_review(user_id, review_id) ==
    /\ IF review_id \notin DOMAIN reviews
       THEN /\ response' = Served("delete", user_id, review_id, None, 204, None)
            /\ UNCHANGED reviews
       ELSE IF reviews[review_id].user_id # user_id
       THEN /\ response' = Served("delete", user_id, review_id, None, 403, None)
            /\ UNCHANGED reviews
       ELSE /\ reviews' = Delete(reviews, review_id)
            /\ response' = Served("delete", user_id, review_id, None, 204, None)
    /\ UNCHANGED <<settings, next_id, clock, procs>>
    /\ UNCHANGED sentiment_vars

\* the ids a client may name: those handed out so far and one never used
ReviewIds == 1..next_id
Init ==
    /\ settings \in StoreSettings
    /\ reviews = NoDocs
    /\ next_id = 1
    /\ clock = 0
    /\ response = None
    /\ procs = None
    /\ arg_text = None
    /\ remote = None
    /\ result = None

Next ==
    \/ \E u \in Users, p \in ReviewCreate : create_review(u, p)
    \/ \E id \in ReviewIds : get_review(id)
    \/ \E u \in Users, id \in ReviewIds, p \in ReviewUpdate :
          update_review(u, id, p)
    \/ \E u \in Users, id \in ReviewIds : delete_review(u, id)

Spec == Init /\ [][Next]_vars

(***************************************************************************)
(* routers/movies.py: the sentiment summary of a movie, over collections   *)
(* of at most MaxDocs stored reviews.  A review written before the         *)
(* classifier existed has no sentiment fields (models/review.py: Optional).*)
(***************************************************************************)
MaxDocs == 3

\* sum(xs) for a list of floats: 0 + xs[1] + ... + xs[n], left to right
SumFloats(xs) ==
    The({ LET acc[i \in 0..Len(s)] ==
                  IF i = 0 THEN Float0_0 ELSE FAdd(acc[i - 1], s[i])
          IN  acc[Len(s)]
          : s \in {xs} })
\* sum(ns) for a list of ints
SumInts(ns) ==
    LET acc[i \in 0..Len(ns)] == IF i = 0 THEN 0 ELSE acc[i - 1] + ns[i]
    IN  acc[Len(ns)]

\* the list [f(docs[id]) for id in ids in ascending order, if keep(docs[id])]
ListOf(docs, ids, f(_), keep(_)) ==
    LET upto[n \in 0..next_id] ==
            IF n = 0 THEN <<>>
            ELSE IF n \in ids /\ keep(docs[n]) THEN Append(upto[n - 1], f(docs[n]))
            ELSE upto[n - 1]
    IN  upto[next_id]

Float0_2 == FromRatio(1, 5)

\* a summary labelled with the thresholds of the heuristic
overall_label_tenth(avg_sent_score) ==
    The({ IF a = None THEN NoneStr
          ELSE IF FGt(a, Float0_1) THEN "positive"
          ELSE IF FLt(a, FNeg(Float0_1)) THEN "negative"
          ELSE "neutral"
          : a \in {avg_sent_score} })

\* the label of the average score
overall_label(avg_sent_score) ==
    The({ IF a = None THEN NoneStr
          ELSE IF FGt(a, Float0_2) THEN "positive"
          ELSE IF FLt(a, FNeg(Float0_2)) THEN "negative"
          ELSE "neutral"
          : a \in {avg_sent_score} })

\* the body of the response of GET /movies/{movie_id}/sentiment
sentiment_summary(docs, movie_id) ==
    LET ids    == { id \in DOMAIN docs : docs[id].movie_id = movie_id }
        scores == ListOf(docs, ids, LAMBDA r : r.sentiment_score,
                         LAMBDA r : r.sentiment_score # None)
    IN  IF ids = {}
        THEN [movie_id |-> movie_id, review_count |-> 0,
              average_rating |-> None, overall_sentiment |-> NoneStr,
              sentiment_score |-> None]
        ELSE The({ [movie_id          |-> movie_id,
                    review_count      |-> Cardinality(ids),
                    average_rating    |->
                        FromRatio(SumInts(ListOf(docs, ids, LAMBDA r : r.rating,
                                                 LAMBDA r : TRUE)),
                                  Cardinality(ids)),
                    overall_sentiment |-> overall_label(avg),
                    sentiment_score   |-> avg]
                   : avg \in { IF scores = <<>> THEN None
                               ELSE FDivInt(SumFloats(scores), Len(scores)) } })

get_movie_sentiment(movie_id) ==
    /\ response' =
          Served("sentiment", None, movie_id, None, 200,
                 sentiment_summary(reviews, movie_id))
    /\ UNCHANGED <<settings, reviews, next_id, clock, procs>>
    /\ UNCHANGED sentiment_vars

\* the stored reviews the summaries are computed over
StoredMovies == {"m1", "m2"}
StoredScores == {FromRatio(1, 5), FromRatio(1, 2), FromRatio(-1, 10), NaN, None}
StoredFields ==
    { [movie_id |-> "m1", rating |-> r, sentiment_score |-> x] :
          r \in {3, 5}, x \in StoredScores }
    \cup { [movie_id |-> "m2", rating |-> 4, sentiment_score |-> FromRatio(1, 2)] }
Authors == <<"u1", "u2", "u3", "u4", "u5", "u6">>
\* the document of the i-th stored review
StoredDoc(i, f) ==
    [movie_id        |-> f.movie_id,
     user_id         |-> Authors[i],
     rating          |-> f.rating,
     body            |-> <<>>,
     sentiment_label |-> IF f.sentiment_score = None THEN NoneStr
                         ELSE MockLabel(f.sentiment_score),
     sentiment_score |-> f.sentiment_score,
     created_at      |-> 0,
     updated_at      |-> 0]

InitAggregate ==
    /\ settings = [sentiment_provider |-> "mock", openai_api_key |-> ""]
    /\ \E n \in 0..MaxDocs :
          /\ next_id = n + 1
          /\ \E fs \in [1..n -> StoredFields] :
                reviews = [i \in 1..n |-> StoredDoc(i, fs[i])]
    /\ clock = 1
    /\ response = None
    /\ procs = None
    /\ arg_text = None
    /\ remote = None
    /\ result = None

NextAggregate ==
    /\ response = None
    /\ \E m \in StoredMovies \cup {"m3"} : get_movie_sentiment(m)

SpecAggregate == InitAggregate /\ [][NextAggregate]_vars

(***************************************************************************)
(* The handlers of routers/reviews.py when requests are served             *)
(* concurrently: each of Procs serves one request, a step at a time; a     *)
(* step is one access to the collection, or the classifier call.           *)
(***************************************************************************)
Procs == {"p1", "p2"}

ConcCreate == [movie_id : Movies, rating : {5}, body : {Tokens[1]}]
ConcUpdate == { [rating |-> 1], [body |-> <<>>], [body |-> Tokens[3]] }

\* the request a process serves, where it stands in the handler (pc), and
\* the handler's local variables
Proc(pc, op, user_id, target, payload, sentiment, now, status) ==
    [pc |-> pc, op |-> op, user_id |-> user_id, target |-> target,
     payload |-> payload, sentiment |-> sentiment, now |-> now,
     status |-> status]
Idle == Proc("idle", "", None, None, None, None, 0, 0)
\* the handler returned or raised: the response has the status
Done(q, status) ==
    Proc("done", q.op, q.user_id, q.target, q.payload, None, 0, status)
At(q, pc) ==
    Proc(pc, q.op, q.user_id, q.target, q.payload, q.sentiment, q.now, q.status)

\* create_review, lines 28-42: the existence query
create_review_query(p, user_id, payload) ==
    /\ procs[p].pc = "idle"
    /\ LET q == Proc("analyze", "create", user_id, payload.movie_id, payload,
                     None, 0, 0)
       IN  procs' =
              [procs EXCEPT ![p] =
                  IF ~ValidCreate(payload) THEN Done(q, 422)
                  ELSE IF existing_query(reviews, payload.movie_id, user_id) # {}
                  THEN Done(q, 409)
                  ELSE q]
    /\ UNCHANGED <<settings, reviews, next_id, clock, response>>
    /\ UNCHANGED sentiment_vars

\* create_review, line 45; update_review, lines 127-132
analyze(p) ==
    /\ procs[p].pc = "analyze"
    /\ \E http \in AnswersUnder(settings) :
          procs' =
             [procs EXCEPT ![p] =
                 Proc("write", procs[p].op, procs[p].user_id, procs[p].target,
                      procs[p].payload,
                      analyze_sentiment(procs[p].payload.body, settings, http),
                      procs[p].now, 0)]
    /\ UNCHANGED <<settings, reviews, next_id, clock, response>>
    /\ UNCHANGED sentiment_vars

\* create_review, lines 48-64: utcnow, add, and doc_ref.id on the pair
\* that add returned
create_review_add(p) ==
    /\ procs[p].pc = "write" /\ procs[p].op = "create"
    /\ reviews' =
          Add(reviews, next_id,
              review_data(procs[p].user_id, procs[p].payload,
                          procs[p].sentiment, clock))
    /\ next_id' = next_id + 1
    /\ clock' = clock + 1
    /\ procs' = [procs EXCEPT ![p] = Done(procs[p], 500)]
    /\ UNCHANGED <<settings, response>>
    /\ UNCHANGED sentiment_vars

\* update_review, lines 107-125: get, the ownership check, utcnow
update_review_get(p, user_id, review_id, payload) ==
    /\ procs[p].pc = "idle"
    /\ LET q == Proc("idle", "update", user_id, review_id, payload, None,
                     clock, 0)
           refused ==
               \/ ~ValidUpdate(payload)
               \/ review_id \notin DOMAIN reviews
               \/ reviews[review_id].user_id # user_id
       IN  /\ procs' =
                 [procs EXCEPT ![p] =
                     IF ~ValidUpdate(payload) THEN Done(q, 422)
                     ELSE IF review_id \notin DOMAIN reviews THEN Done(q, 404)
                     ELSE IF reviews[review_id].user_id # user_id
                     THEN Done(q, 403)
                     ELSE IF "body" \in DOMAIN payload THEN At(q, "analyze")
                     ELSE At(q, "write")]
           /\ clock' = IF refused THEN clock ELSE clock + 1
    /\ UNCHANGED <<settings, reviews, next_id, response>>
    /\ UNCHANGED sentiment_vars

\* a write with set(update_data, merge=True), which creates the document
\* when it is gone
update_review_set_merge(p) ==
    /\ procs[p].pc = "write" /\ procs[p].op = "update"
    /\ reviews' =
          IF procs[p].target \in DOMAIN reviews
          THEN Update(reviews, procs[p].target,
                      update_data(procs[p].payload, procs[p].sentiment,
                                  procs[p].now))
          ELSE Add(reviews, procs[p].target,
                   update_data(procs[p].payload, procs[p].sentiment,
                               procs[p].now))
    /\ procs' = [procs EXCEPT ![p] = At(procs[p], "reread")]
    /\ UNCHANGED <<settings, next_id, clock, response>>
    /\ UNCHANGED sentiment_vars

\* update_review, line 135: doc_ref.update, which raises NotFound when the
\* document is gone
update_review_update(p) ==
    /\ procs[p].pc = "write" /\ procs[p].op = "update"
    /\ IF procs[p].target \notin DOMAIN reviews
       THEN /\ procs' = [procs EXCEPT ![p] = Done(procs[p], 500)]
            /\ UNCHANGED reviews
       ELSE /\ reviews' =
                  Update(reviews, procs[p].target,
                         update_data(procs[p].payload, procs[p].sentiment,
                                     procs[p].now))
            /\ procs' = [procs EXCEPT ![p] = At(procs[p], "reread")]
    /\ UNCHANGED <<settings, next_id, clock, response>>
    /\ UNCHANGED sentiment_vars

\* update_review, lines 138-142: the document is read again; to_dict() of
\* a document that is gone is None, and assigning into it raises
update_review_reread(p) ==
    /\ procs[p].pc = "reread"
    /\ procs' =
          [procs EXCEPT ![p] =
              Done(procs[p],
                   IF procs[p].target \in DOMAIN reviews THEN 200 ELSE 500)]
    /\ UNCHANGED <<settings, reviews, next_id, clock, response>>
    /\ UNCHANGED sentiment_vars

\* delete_review, lines 152-164: get and the ownership check
delete_review_get(p, user_id, review_id) ==
    /\ procs[p].pc = "idle"
    /\ LET q == Proc("write", "delete", user_id, review_id, None, None, 0, 0)
       IN  procs' =
              [procs EXCEPT ![p] =
                  IF review_id \notin DOMAIN reviews THEN Done(q, 204)
                  ELSE IF reviews[review_id].user_id # user_id
                  THEN Done(q, 403)
                  ELSE q]
    /\ UNCHANGED <<settings, reviews, next_id, clock, response>>
    /\ UNCHANGED sentiment_vars

\* delete_review, line 167: doc_ref.delete(), a no-op on a document that
\* is gone
delete_review_delete(p) ==
    /\ procs[p].pc = "write" /\ procs[p].op = "delete"
    /\ reviews' =
          IF procs[p].target \in DOMAIN reviews
          THEN Delete(reviews, procs[p].target) ELSE reviews
    /\ procs' = [procs EXCEPT ![p] = Done(procs[p], 204)]
    /\ UNCHANGED <<settings, next_id, clock, response>>
    /\ UNCHANGED sentiment_vars

\* the collection when the requests arrive: empty, or holding the review
\* that "u1" created of "m1"
FirstReview ==
    review_data("u1", [movie_id |-> "m1", rating |-> 5, body |-> Tokens[1]],
                MockMemo[Tokens[1]], 0)

InitConc ==
    /\ settings \in StoreSettings
    /\ \/ reviews = NoDocs /\ next_id = 1 /\ clock = 0
       \/ reviews = Add(NoDocs, 1, FirstReview) /\ next_id = 2 /\ clock = 1
    /\ response = None
    /\ procs = [p \in Procs |-> Idle]
    /\ arg_text = None
    /\ remote = None
    /\ result = None

NextConc ==
    \E p \in Procs :
        \/ \E u \in Users, c \in ConcCreate : create_review_query(p, u, c)
        \/ analyze(p)
        \/ create_review_add(p)
        \/ \E u \in Users, id \in ReviewIds, c \in ConcUpdate :
              update_review_get(p, u, id, c)
        \/ update_review_update(p)
        \/ update_review_reread(p)
        \/ \E u \in Users, id \in ReviewIds : delete_review_get(p, u, id)
        \/ delete_review_delete(p)

SpecConc == InitConc /\ [][NextConc]_vars

(***************************************************************************)
(* Reference notions the properties are stated with.                       *)
(***************************************************************************)
\* how many of the words occur in t
CountIn(words, t) ==
    The({ Cardinality({ i \in DOMAIN words : In(words[i], s) }) : s \in {t} })
\* per text: the numbers of positive and of negative keywords that occur in
\* the lower-cased text
KeywordCounts ==
    [t \in Texts |->
        The({ [pos |-> CountIn(_POSITIVE_WORDS, s),
               neg |-> CountIn(_NEGATIVE_WORDS, s)] : s \in {Lower(t)} })]
\* per text: the keywords that occur in the lower-cased text
KeywordsIn ==
    [t \in Texts |->
        The({ { _POSITIVE_WORDS[i] : i \in { j \in DOMAIN _POSITIVE_WORDS :
                                               In(_POSITIVE_WORDS[j], s) } }
              \cup
              { _NEGATIVE_WORDS[i] : i \in { j \in DOMAIN _NEGATIVE_WORDS :
                                               In(_NEGATIVE_WORDS[j], s) } }
              : s \in {Lower(t)} })]
Love == <<"l", "o", "v", "e">>
Hate == <<"h", "a", "t", "e">>

\* 2^-48, the rounding allowance, on the 2^-112 grid
Tolerance == BigPow2(64)
\* |x - num/den| <= 2^-48 for a float x and a fraction num/den, den > 0
Near(x, num, den) ==
    \E u \in {x}, a \in {BigFromInt(IF num < 0 THEN -num ELSE num)} :
        /\ ~u.nan
        /\ \E m \in {BigMulSmall(u.mag, den)} :
              \E dist \in { IF u.neg # (num < 0) THEN BigAdd(m, a)
                            ELSE IF BigCmp(m, a) >= 0 THEN BigSub(m, a)
                            ELSE BigSub(a, m) } :
                  BigCmp(dist, BigMulSmall(Tolerance, den)) <= 0
\* -1.0 <= x <= 1.0
InUnit(x) == \E u \in {x} : ~u.nan /\ FCmp(u, Float1_0) <= 0 /\ FCmp(u, FNeg(Float1_0)) >= 0
\* the label the thresholds 0.1 and -0.1 give the float x
ThresholdLabel(x) ==
    The({ IF u.nan THEN "neutral"
          ELSE IF FCmp(u, FromRatio(1, 10)) > 0 THEN "positive"
          ELSE IF FCmp(u, FromRatio(-1, 10)) < 0 THEN "negative"
          ELSE "neutral" : u \in {x} })
\* clamp(0.2 * pos - 0.25 * neg, -1, 1) as the exact fraction ClampNum / 20
ClampNum(pos, neg) ==
    The({ IF n > 20 THEN 20 ELSE IF n < -20 THEN -20 ELSE n
          : n \in {4 * pos - 5 * neg} })
\* the label the thresholds give the exact fraction num / 20
ExactLabel(num) ==
    IF num > 2 THEN "positive" ELSE IF num < -2 THEN "negative" ELSE "neutral"

\* the call ran, and its result is the local heuristic's (provider not
\* "openai")
LocalRan == result # None /\ ~UsesOpenAI(settings)

\* the request was sent and the try block raised: the result is the
\* fallback's
FellBack ==
    /\ result # None
    /\ UsesOpenAI(settings) /\ CallsRemote(settings.openai_api_key)
    /\ OpenAITry(remote) = Raised

\* the failures of the external strategy that the contract lists, read off
\* the remote's answer
ListedFailure(http) ==
    \/ http.transport # "ok"
    \/ http.status \notin 200..299
    \/ ~http.json
    \/ http.choices = <<>>
    \/ http.choices[1] = Malformed
    \/ "label" \notin DOMAIN http.choices[1]
    \/ "score" \notin DOMAIN http.choices[1]
    \/ StrLower(http.choices[1]["label"]) \notin Labels

(***************************************************************************)
(* C5: whenever the external strategy obtains no valid result (no API key, *)
(* transport error or timeout, non-success status, no choices, malformed   *)
(* JSON, missing label or score, label outside the three values),          *)
(* analyze_sentiment raises nothing and returns exactly what the local     *)
(* heuristic returns for the same text.                                    *)
(***************************************************************************)
C5_FailureYieldsLocal ==
    ( /\ result # None
      /\ UsesOpenAI(settings)
      /\ \/ ~CallsRemote(settings.openai_api_key)
         \/ ListedFailure(remote) )
    => /\ result # Raised
       /\ result = MockMemo[arg_text]
\* a remote answer with a label outside the three values was replaced by
\* the heuristic's result for a text with keywords
C5_Witness ==
    /\ result # None
    /\ UsesOpenAI(settings) /\ CallsRemote(settings.openai_api_key)
    /\ remote.transport = "ok" /\ remote.choices # <<>>
    /\ remote.choices[1] # Malformed
    /\ DOMAIN remote.choices[1] = {"label", "score"}
    /\ remote.choices[1]["label"] = "Mixed"
    /\ result.label = "negative"

(***************************************************************************)
(* C6 as amended: the local heuristic's score equals                       *)
(* clamp(0.2 * npos - 0.25 * nneg, -1, 1) up to floating-point rounding    *)
(* (within 2^-48), lies in [-1.0, 1.0], and the label is positive iff the  *)
(* returned score > 0.1, negative iff it is < -0.1, neutral otherwise.     *)
(***************************************************************************)
C6_ScoreAndLabel ==
    LocalRan =>
        /\ Near(result.score,
                ClampNum(KeywordCounts[arg_text].pos, KeywordCounts[arg_text].neg),
                20)
        /\ InUnit(result.score)
        /\ result.label = ThresholdLabel(result.score)
\* a text with six positive keywords was scored: the sum 1.2 was clamped
C6_Witness ==
    /\ LocalRan
    /\ KeywordCounts[arg_text].pos = 6
    /\ KeywordCounts[arg_text].neg = 0
    /\ result.score = Float1_0
\* C6 as stated: the score is clamp(0.2 * npos - 0.25 * nneg, -1, 1) (read
\* up to rounding), in [-1.0, 1.0], and the label is the one the thresholds
\* give that value, exactly 0.1 and -0.1 being neutral.
C6_Original ==
    LocalRan =>
        /\ Near(result.score,
                ClampNum(KeywordCounts[arg_text].pos, KeywordCounts[arg_text].neg),
                20)
        /\ InUnit(result.score)
        /\ result.label =
               ExactLabel(ClampNum(KeywordCounts[arg_text].pos,
                                   KeywordCounts[arg_text].neg))

(***************************************************************************)
(* C7 as amended: for all text in which "love" and "hate" are the only     *)
(* keywords that occur, the local heuristic returns the float 0.2 - 0.25   *)
(* and the label neutral.                                                  *)
(***************************************************************************)
C7_OnlyLoveAndHate ==
    (LocalRan /\ KeywordsIn[arg_text] = {Love, Hate})
    => /\ result.score = FSub(FromRatio(1, 5), FromRatio(1, 4))
       /\ Near(result.score, -1, 20)
       /\ result.label = "neutral"
C7_Witness ==
    /\ LocalRan
    /\ KeywordsIn[arg_text] = {Love, Hate}
    /\ Len(arg_text) > Len(Love) + Len(Hate)
\* C7 as stated: for all text containing both "love" and "hate" the score
\* is -0.05 (read up to rounding) and the label is neutral.
C7_Original ==
    (LocalRan /\ {Love, Hate} \subseteq KeywordsIn[arg_text])
    => /\ Near(result.score, -1, 20)
       /\ result.label = "neutral"

(***************************************************************************)
(* C10 as amended: every SentimentResult that the local heuristic          *)
(* produced, called directly or as the fallback of the external strategy,  *)
(* has the label the thresholds give its score: positive iff score > 0.1,  *)
(* negative iff score < -0.1, neutral otherwise.                           *)
(***************************************************************************)
C10_LocalLabelConsistent ==
    ( /\ result # None
      /\ \/ ~(UsesOpenAI(settings) /\ CallsRemote(settings.openai_api_key))
         \/ OpenAITry(remote) = Raised )
    => result.label = ThresholdLabel(result.score)
\* the fallback ran after a failed request and found a positive text
C10_Witness ==
    /\ FellBack
    /\ result.label = "positive"
    /\ FGt(result.score, FromRatio(1, 10))
\* C10 as stated: every result, a successful remote response's included,
\* has the label the thresholds give its score.
C10_Original ==
    result # None => result.label = ThresholdLabel(result.score)

(***************************************************************************)
(* Reference notions for the review store.                                 *)
(***************************************************************************)
\* the step served a request of one of the handlers ops, and the request
\* passed the validation of its body
ServedStep(ops) ==
    /\ response' # None
    /\ response'.op \in ops
    /\ response'.status # 422
\* the rating, the body or a sentiment field of the review differs
Edited(old, new) ==
    \/ old.rating # new.rating
    \/ old.body # new.body
    \/ old.sentiment_label # new.sentiment_label
    \/ old.sentiment_score # new.sentiment_score
\* what the classifier may return for a text under the settings
ClassifierResults(t) ==
    { analyze_sentiment(t, settings, h) : h \in AnswersUnder(settings) }

(***************************************************************************)
(* C2, as stated: with requests served one at a time, a Create by author a *)
(* for movie m fails with 409 and leaves the store unchanged if a review   *)
(* for (m, a) exists; otherwise it succeeds (201) and adds exactly one     *)
(* review, that of (m, a).                                                 *)
(***************************************************************************)
C2_CreateContract ==
    [][ ServedStep({"create"}) =>
          IF existing_query(reviews, response'.target, response'.user_id) # {}
          THEN /\ response'.status = 409
               /\ reviews' = reviews
          ELSE /\ response'.status = 201
               /\ \E id \in DOMAIN reviews' \ DOMAIN reviews :
                     /\ DOMAIN reviews' = DOMAIN reviews \cup {id}
                     /\ \A i \in DOMAIN reviews : reviews'[i] = reviews[i]
                     /\ reviews'[id].movie_id = response'.target
                     /\ reviews'[id].user_id = response'.user_id ]_vars

(***************************************************************************)
(* C3: a review's rating, body and sentiment fields change, and the review *)
(* is removed, only in a step that serves an Update or Delete of that      *)
(* review by its author; a well-formed Update or Delete of an existing     *)
(* review by any other principal fails with 403 and leaves the store       *)
(* unchanged.                                                              *)
(***************************************************************************)
C3_OnlyAuthorMutates ==
    [][ /\ \A id \in DOMAIN reviews :
              (id \notin DOMAIN reviews' \/ Edited(reviews[id], reviews'[id]))
              => /\ ServedStep({"update", "delete"})
                 /\ response'.target = id
                 /\ response'.user_id = reviews[id].user_id
        /\ ( /\ ServedStep({"update", "delete"})
             /\ response'.target \in DOMAIN reviews
             /\ response'.user_id # reviews[response'.target].user_id )
           => /\ response'.status = 403
              /\ reviews' = reviews ]_vars
\* a Delete by another principal was refused and the review is still there
C3_Witness ==
    /\ response # None
    /\ response.op = "delete"
    /\ response.status = 403
    /\ response.target \in DOMAIN reviews
    /\ reviews[response.target].user_id # response.user_id

(***************************************************************************)
(* C4: an Update by the owner that supplies no body leaves body,           *)
(* sentiment_label and sentiment_score of the review unchanged; an Update  *)
(* that supplies body, with or without rating, overwrites body with it and *)
(* sets both sentiment fields to the classifier's result for the new body. *)
(***************************************************************************)
C4_UpdateFrame ==
    [][ (ServedStep({"update"}) /\ response'.status = 200) =>
          LET id  == response'.target
              req == response'.payload
          IN  /\ "body" \notin DOMAIN req =>
                    /\ reviews'[id].body = reviews[id].body
                    /\ reviews'[id].sentiment_label = reviews[id].sentiment_label
                    /\ reviews'[id].sentiment_score = reviews[id].sentiment_score
              /\ "body" \in DOMAIN req =>
                    /\ reviews'[id].body = req.body
                    /\ SentimentResult(reviews'[id].sentiment_label,
                                       reviews'[id].sentiment_score)
                          \in ClassifierResults(req.body) ]_vars
\* a rating-only Update of a review of "love" was served: the rating is the
\* new one, the sentiment still that of the body
C4_Witness ==
    /\ response # None
    /\ response.op = "update"
    /\ response.status = 200
    /\ DOMAIN response.payload = {"rating"}
    /\ reviews[response.target].rating = response.payload.rating
    /\ reviews[response.target].body = Love
    /\ reviews[response.target].sentiment_label = "positive"
    /\ reviews[response.target].updated_at > reviews[response.target].created_at

(***************************************************************************)
(* C9, as stated: every review in the store has its rating in 1..5, its    *)
(* sentiment score in [-1.0, 1.0] and its sentiment label among positive,  *)
(* neutral and negative.                                                   *)
(***************************************************************************)
C9_StoredFieldsInRange ==
    \A id \in DOMAIN reviews :
        /\ reviews[id].rating \in 1..5
        /\ InUnit(reviews[id].sentiment_score)
        /\ reviews[id].sentiment_label \in Labels

(***************************************************************************)
(* Reference notions for the sentiment summary: exact sums of floats, as   *)
(* signed numbers on the 2^-112 grid.                                      *)
(***************************************************************************)
Signed(neg, mag) == The({ [neg |-> neg /\ m # BigZero, mag |-> m] : m \in {mag} })
\* x + y, exactly
ExactAdd(x, y) ==
    The({ IF u.neg = v.neg THEN Signed(u.neg, BigAdd(u.mag, v.mag))
          ELSE IF BigCmp(u.mag, v.mag) >= 0
               THEN Signed(u.neg, BigSub(u.mag, v.mag))
          ELSE Signed(v.neg, BigSub(v.mag, u.mag))
          : u \in {x}, v \in {y} })
\* x * n for a natural n, and -x, exactly
ExactTimes(x, n) == The({ Signed(u.neg, BigMulSmall(u.mag, n)) : u \in {x} })
ExactNeg(x) == The({ Signed(~u.neg, u.mag) : u \in {x} })
\* 1, 0 or -1: the sign of x
ExactSign(x) ==
    The({ IF u.mag = BigZero THEN 0 ELSE IF u.neg THEN -1 ELSE 1 : u \in {x} })

\* the reviews of the movie that the summary in response is about, those of
\* them that have a score, and whether one of these scores is NaN
SummaryIds == { id \in DOMAIN reviews : reviews[id].movie_id = response.target }
ScoredIds == { id \in SummaryIds : reviews[id].sentiment_score # None }
SomeNaN == \E id \in ScoredIds : reviews[id].sentiment_score.nan
\* the exact sum of the scores of the scored reviews
ExactScoreSum ==
    LET upto[n \in 0..next_id] ==
            IF n = 0 THEN Signed(FALSE, BigZero)
            ELSE IF n \in ScoredIds
                 THEN ExactAdd(upto[n - 1],
                               Signed(reviews[n].sentiment_score.neg,
                                      reviews[n].sentiment_score.mag))
            ELSE upto[n - 1]
    IN  upto[next_id]
\* the sum of the ratings
RatingSum ==
    LET upto[n \in 0..next_id] ==
            IF n = 0 THEN 0
            ELSE IF n \in SummaryIds THEN upto[n - 1] + reviews[n].rating
            ELSE upto[n - 1]
    IN  upto[next_id]
\* |x - (the mean of the scores)| <= 2^-48 for a float x
NearScoreMean(x) ==
    \E u \in {x}, n \in {Cardinality(ScoredIds)} :
        /\ ~u.nan
        /\ BigCmp(ExactAdd(ExactTimes(Signed(u.neg, u.mag), n),
                           ExactNeg(ExactScoreSum)).mag,
                  BigMulSmall(Tolerance, n)) <= 0
\* the sign of (the mean of the scores) - x for a float x
MeanAgainst(x) ==
    ExactSign(ExactAdd(ExactScoreSum,
                       ExactNeg(ExactTimes(Signed(x.neg, x.mag),
                                           Cardinality(ScoredIds)))))
\* the label the thresholds 0.2 and -0.2 give the float x
SummaryLabel(x) ==
    The({ IF u.nan THEN "neutral"
          ELSE IF FCmp(u, FromRatio(1, 5)) > 0 THEN "positive"
          ELSE IF FCmp(u, FromRatio(-1, 5)) < 0 THEN "negative"
          ELSE "neutral" : u \in {x} })
\* the label the thresholds give the exact mean of the scores
MeanLabel ==
    IF MeanAgainst(FromRatio(1, 5)) > 0 THEN "positive"
    ELSE IF MeanAgainst(FromRatio(-1, 5)) < 0 THEN "negative"
    ELSE "neutral"

SummaryServed == response # None /\ response.op = "sentiment"
\* count, mean rating and the nulls of the summary in response
SummaryShape ==
    LET out == response.review
    IN  /\ out.review_count = Cardinality(SummaryIds)
        /\ IF SummaryIds = {}
           THEN out.average_rating = None
           ELSE Near(out.average_rating, RatingSum, Cardinality(SummaryIds))
        /\ (ScoredIds = {}) <=> (out.sentiment_score = None)
        /\ (out.sentiment_score = None) <=> (out.overall_sentiment = NoneStr)

(***************************************************************************)
(* C8 as amended: the summary has count 0 and null fields for a movie      *)
(* without reviews; otherwise count is the number of reviews,              *)
(* average_rating the mean of the ratings, the sentiment score the mean of *)
(* the non-null scores up to floating-point rounding (within 2^-48; NaN    *)
(* when a score is NaN; null when there is none), and overall_sentiment is *)
(* positive iff the returned sentiment score > 0.2, negative iff it is     *)
(* < -0.2, neutral otherwise, null iff the score is null.                  *)
(***************************************************************************)
C8_SummaryIsAggregate ==
    SummaryServed =>
        /\ SummaryShape
        /\ ScoredIds # {} =>
              /\ IF SomeNaN THEN response.review.sentiment_score.nan
                 ELSE NearScoreMean(response.review.sentiment_score)
              /\ response.review.overall_sentiment
                     = SummaryLabel(response.review.sentiment_score)
\* the summary of three reviews with scores 0.5, null and -0.1: the mean
\* of the two scores is 0.2 and the label neutral
C8_Witness ==
    /\ SummaryServed
    /\ response.review.review_count = 3
    /\ Cardinality(ScoredIds) = 2
    /\ \E id \in ScoredIds : reviews[id].sentiment_score = FromRatio(1, 2)
    /\ \E id \in ScoredIds : reviews[id].sentiment_score = FromRatio(-1, 10)
    /\ response.review.sentiment_score = FromRatio(1, 5)
    /\ response.review.overall_sentiment = "neutral"
\* C8 as stated: as above, with overall_sentiment the label the thresholds
\* give the mean of the scores, a mean of exactly 0.2 being neutral.
C8_Original ==
    SummaryServed =>
        /\ SummaryShape
        /\ (ScoredIds # {} /\ ~SomeNaN) =>
              /\ NearScoreMean(response.review.sentiment_score)
              /\ response.review.overall_sentiment = MeanLabel

(***************************************************************************)
(* C1, as stated: in every reachable state, also when the steps of         *)
(* concurrent create_review requests interleave, at most one review exists *)
(* for any (movie_id, user_id) pair.                                       *)
(***************************************************************************)
C1_OneReviewPerPair ==
    \A i, j \in DOMAIN reviews :
        (reviews[i].movie_id = reviews[j].movie_id
         /\ reviews[i].user_id = reviews[j].user_id) => i = j

(***************************************************************************)
(* C11, as stated: a Create or Update whose body is the empty string is    *)
(* rejected with ValidationError (422) and changes nothing in the store,   *)
(* so no stored review ever has an empty body.                             *)
(***************************************************************************)
C11_EmptyBodyRejected ==
    [][ /\ ( /\ response' # None
             /\ response'.op \in {"create", "update"}
             /\ response'.payload # None
             /\ "body" \in DOMAIN response'.payload
             /\ response'.payload.body = <<>> )
           => /\ response'.status = 422
              /\ reviews' = reviews
        /\ \A id \in DOMAIN reviews' : reviews'[id].body # <<>> ]_vars

(***************************************************************************)
(* C12: a Delete of a review id that does not exist, by any principal,     *)
(* returns success (204, neither 404 nor 403) and leaves the store         *)
(* unchanged; a Delete of an existing review by its author succeeds and    *)
(* removes exactly that review and no other.                               *)
(***************************************************************************)
C12_DeleteContract ==
    [][ ServedStep({"delete"}) =>
          LET id == response'.target
          IN  /\ id \notin DOMAIN reviews =>
                    /\ response'.status = 204
                    /\ reviews' = reviews
              /\ ( /\ id \in DOMAIN reviews
                   /\ reviews[id].user_id = response'.user_id ) =>
                    /\ response'.status = 204
                    /\ DOMAIN reviews' = DOMAIN reviews \ {id}
                    /\ \A i \in DOMAIN reviews' : reviews'[i] = reviews[i] ]_vars
\* a Delete was served with success for an id that was handed out and is
\* no longer in the store, while another review is still there
C12_Witness ==
    /\ response # None
    /\ response.op = "delete"
    /\ response.status = 204
    /\ response.target < next_id
    /\ response.target \notin DOMAIN reviews
    /\ DOMAIN reviews # {}

(***************************************************************************)
(* C13: a well-formed Update of a review id that does not exist fails with *)
(* NotFound (404) for every caller, before any ownership check, and        *)
(* neither creates a review nor changes an existing one; a Get of an id    *)
(* that does not exist fails with NotFound (404) as well.                  *)
(***************************************************************************)
C13_MissingIsNotFound ==
    [][ ( /\ ServedStep({"update", "get"})
          /\ response'.target \notin DOMAIN reviews )
        => /\ response'.status = 404
           /\ reviews' = reviews ]_vars
\* an Update of an id that is not in the store was answered 404 while the
\* store holds a review
C13_Witness ==
    /\ response # None
    /\ response.op = "update"
    /\ response.status = 404
    /\ response.target \notin DOMAIN reviews
    /\ DOMAIN reviews # {}

(***************************************************************************)
(* C14: in every reachable state, also when the steps of concurrent        *)
(* Updates of the same review (rating-only and body-carrying) interleave,  *)
(* each stored review's sentiment_label and sentiment_score are a result   *)
(* of the classifier for exactly the body stored in that review; with the  *)
(* local provider they are the local heuristic's result for that body.     *)
(***************************************************************************)
C14_SentimentOfStoredBody ==
    \A id \in DOMAIN reviews :
        \E stored \in { SentimentResult(reviews[id].sentiment_label,
                                        reviews[id].sentiment_score) } :
            /\ stored \in ClassifierResults(reviews[id].body)
            /\ ~UsesOpenAI(settings) => stored = MockMemo[reviews[id].body]
\* with the local provider, a rating-only Update and an Update with the
\* body "hate" of the same review were both served, the one that read the
\* clock first writing last: the review has the new rating, the new body
\* and its label
C14_Witness ==
    /\ ~UsesOpenAI(settings)
    /\ \A p \in Procs : procs[p].pc = "done" /\ procs[p].op = "update"
                        /\ procs[p].status = 200
    /\ procs["p1"].target = procs["p2"].target
    /\ DOMAIN procs["p1"].payload = {"rating"}
    /\ DOMAIN procs["p2"].payload = {"body"}
    /\ \E id \in {procs["p1"].target} :
          /\ id \in DOMAIN reviews
          /\ reviews[id].rating = 1
          /\ reviews[id].body = Hate
          /\ reviews[id].sentiment_label = "negative"
          /\ reviews[id].updated_at + 2 = clock

(***************************************************************************)
(* C15: once a Delete by the owner has removed a review, no review with    *)
(* that id exists in any later state: an Update by the owner that read the *)
(* review before the Delete and writes after it does not re-create it      *)
(* (the store's update of a missing document fails); and no Update changes *)
(* a review's movie_id, user_id or created_at.                             *)
(***************************************************************************)
C15_DeleteIsPermanent ==
    [][ /\ \A id \in 1..(next_id - 1) :
              id \notin DOMAIN reviews => id \notin DOMAIN reviews'
        /\ \A id \in DOMAIN reviews \cap DOMAIN reviews' :
              /\ reviews'[id].movie_id = reviews[id].movie_id
              /\ reviews'[id].user_id = reviews[id].user_id
              /\ reviews'[id].created_at = reviews[id].created_at ]_vars
\* an Update that found the review and its owner wrote after the owner's
\* Delete of the same review: the write failed and the review is gone
C15_Witness ==
    /\ procs["p1"].pc = "done" /\ procs["p1"].op = "update"
    /\ procs["p1"].status = 500
    /\ procs["p2"].pc = "done" /\ procs["p2"].op = "delete"
    /\ procs["p2"].status = 204
    /\ procs["p1"].target = procs["p2"].target
    /\ procs["p1"].user_id = procs["p2"].user_id
    /\ procs["p1"].target < next_id
    /\ procs["p1"].target \notin DOMAIN reviews
====
